---- MODULE Spec2Model ----
(***************************************************************************)
(* Model of the Diego-Enabler CF CLI plugin (src/main.go).                 *)
(*                                                                         *)
(* One plugin process runs one command: Run dispatches on args to          *)
(* toggleDiegoSupport, isDiegoEnabled, showApps or showUsage.  The process *)
(* is sequential; pc is the position in the running handler and every      *)
(* action is the code between two collaborator calls.  The collaborators   *)
(* (the CLI connection, the diego_support client, the paginated listings)  *)
(* are the environment: each call returns a nondeterministic result.       *)
(***************************************************************************)
EXTENDS Integers, Sequences, FiniteSets, TLC

\* ---------------------------------------------------------------- bounds
MaxArgs   == 3      \* len(args) ranges over 1..MaxArgs
MaxApps   == 2      \* length of the application listing
MaxSpaces == 2      \* length of the space listing
MaxOutput == 1      \* number of output lines SetDiegoFlag returns

\* ---------------------------------------------------------------- values
nil == "nil"
ErrValues == {"transport error"}
CommandNames == {"enable-diego", "disable-diego", "has-diego-enabled",
                 "diego-apps", "dea-apps"}
\* first arguments the host can pass: the five commands and a name that is
\* none of them (the CLI sends CLI-MESSAGE-UNINSTALL on uninstall)
Arg0Values == CommandNames \cup {"CLI-MESSAGE-UNINSTALL"}

NotLoggedInError == "You must be logged in"

SpaceGuids == {"s1", "s2"}

\* models.Application as returned by the listings
ListedApps == [Name : {"a", "b"}, SpaceGuid : SpaceGuids]
\* models.Space
Spaces == [Guid : SpaceGuids, Name : {"dev", "prod"},
           OrganizationGuid : {"o1"}, Organization : [Name : {"", "acme"}]]

SeqsUpTo(S, n) == UNION {[1..k -> S] : k \in 0..n}

OutputLines == SeqsUpTo({"server says no"}, MaxOutput)

\* %t of fmt.Printf / fmt.Println of a bool
FormatBool(b) == IF b THEN "true" ELSE "false"

VARIABLES
  args0,        \* args[0]
  nargs,        \* len(args)
  pc,           \* position in the running command
  on,           \* toggleDiegoSupport's parameter
  appsGetter,   \* showApps's parameter
  app,          \* the local variable app of toggleDiegoSupport / isDiegoEnabled
  apps,         \* showApps: the fetched application set
  spaceMap,     \* showApps: map[string]models.Space
  idx,          \* showApps: position of the range loop over apps
  t,            \* showApps: rows added to the table
  stdout,       \* everything printed, in order
  calls,        \* every collaborator call (and the convergence comparison), in
                \* order, with what it returned
  exitCode,     \* process exit status (0 until os.Exit(1))
  remoteDiego   \* the flag of the named application on the control plane

vars == <<args0, nargs, pc, on, appsGetter, app, apps, spaceMap, idx, t,
          stdout, calls, exitCode, remoteDiego>>

Line(kind, text) == [kind |-> kind, text |-> text]
CallOut(op, arg, ret, err, output) ==
  [op |-> op, arg |-> arg, ret |-> ret, err |-> err, output |-> output]
Call(op, arg, ret, err) == CallOut(op, arg, ret, err, <<>>)

sayOk == Line("Ok", "")
sayFailed == Line("FAILED", "")

RECURSIVE OutputAsLines(_)
OutputAsLines(output) ==
  IF output = <<>> THEN <<>>
  ELSE <<Line("output", Head(output))>> \o OutputAsLines(Tail(output))

\* exitWithError: what it prints; the caller sets pc and exitCode
exitWithError(err, output) ==
  <<sayFailed, Line("Error", err)>> \o OutputAsLines(output)

NoApp == [Guid |-> "", Diego |-> FALSE]

\* ------------------------------------------------------------------- Run
showUsage ==
  IF args0 \in CommandNames THEN <<Line("Invalid Usage", args0)>> ELSE <<>>

\* Dispatch with the two toggles and the two getters exchanged
Dispatch_Swapped(a0, n) ==
  IF a0 = "enable-diego" /\ n = 2 THEN "disable"
  ELSE IF a0 = "disable-diego" /\ n = 2 THEN "enable"
  ELSE IF a0 = "has-diego-enabled" /\ n = 2 THEN "isDiegoEnabled"
  ELSE IF a0 = "diego-apps" /\ n = 1 THEN "DeaApps"
  ELSE IF a0 = "dea-apps" /\ n = 1 THEN "DiegoApps"
  ELSE "showUsage"

\* Dispatch without the tests of len(args)
Dispatch_NoArity(a0, n) ==
  IF a0 = "enable-diego" THEN "enable"
  ELSE IF a0 = "disable-diego" THEN "disable"
  ELSE IF a0 = "has-diego-enabled" THEN "isDiegoEnabled"
  ELSE IF a0 = "diego-apps" THEN "DiegoApps"
  ELSE IF a0 = "dea-apps" THEN "DeaApps"
  ELSE "showUsage"

\* the if / else-if chain of Run: the handler an invocation is dispatched to
Dispatch(a0, n) ==
  IF a0 = "enable-diego" /\ n = 2 THEN "enable"
  ELSE IF a0 = "disable-diego" /\ n = 2 THEN "disable"
  ELSE IF a0 = "has-diego-enabled" /\ n = 2 THEN "isDiegoEnabled"
  ELSE IF a0 = "diego-apps" /\ n = 1 THEN "DiegoApps"
  ELSE IF a0 = "dea-apps" /\ n = 1 THEN "DeaApps"
  ELSE "showUsage"

Run ==
  /\ pc = "Run"
  /\ LET h == Dispatch(args0, nargs) IN
       CASE h \in {"enable", "disable"} ->
              /\ pc' = "toggleDiegoSupport"
              /\ on' = (h = "enable")
              /\ UNCHANGED <<appsGetter, stdout>>
         [] h = "isDiegoEnabled" ->
              /\ pc' = "isDiegoEnabled"
              /\ UNCHANGED <<on, appsGetter, stdout>>
         [] h \in {"DiegoApps", "DeaApps"} ->
              /\ pc' = "showApps"
              /\ appsGetter' = h
              /\ UNCHANGED <<on, stdout>>
         [] OTHER ->
              /\ pc' = "done"
              /\ stdout' = stdout \o showUsage
              /\ UNCHANGED <<on, appsGetter>>
  /\ UNCHANGED <<args0, nargs, app, apps, spaceMap, idx, t, calls, exitCode,
                 remoteDiego>>

\* ---------------------------------------------------------- collaborators
\* cliConnection.GetApp: the model it returns when the lookup finds the
\* application, and the empty model (Guid == "") when it does not
GetApp(found) ==
  IF found THEN [Guid |-> "app-guid", Diego |-> remoteDiego] ELSE NoApp

GetAppCall(a, err) == Call("GetApp", "APP_NAME", FormatBool(a.Diego), err)

\* -------------------------------------------------------- toggleDiegoSupport
\* lines 215-221: announce, first lookup of the application
toggleGetApp ==
  /\ pc = "toggleDiegoSupport"
  /\ \E found \in BOOLEAN, err \in ErrValues \cup {nil} :
       LET a == GetApp(found) IN
       /\ calls' = Append(calls, GetAppCall(a, err))
       /\ app' = a
       /\ IF err # nil
            THEN /\ stdout' = stdout \o <<Line("Setting", FormatBool(on))>>
                                     \o exitWithError(err, <<>>)
                 /\ pc' = "exit"
                 /\ exitCode' = 1
            ELSE /\ stdout' = Append(stdout, Line("Setting", FormatBool(on)))
                 /\ pc' = "SetDiegoFlag"
                 /\ UNCHANGED exitCode
  /\ UNCHANGED <<args0, nargs, on, appsGetter, apps, spaceMap, idx, t,
                 remoteDiego>>

\* toggleSetDiegoFlag that reports a failed set request and carries on
toggleSetDiegoFlag_NoExit ==
  /\ pc = "SetDiegoFlag"
  /\ \E err \in ErrValues \cup {nil}, output \in OutputLines,
        applied \in BOOLEAN :
       /\ calls' = Append(calls,
                     CallOut("SetDiegoFlag", app.Guid, FormatBool(on), err,
                             output))
       /\ remoteDiego' = IF applied /\ app.Guid # "" THEN on ELSE remoteDiego
       /\ stdout' = stdout \o
            (IF err # nil
               THEN <<Line("err 1", err)>> \o exitWithError(err, output)
               ELSE <<sayOk>>) \o <<Line("Verifying", FormatBool(on))>>
       /\ pc' = "Verifying"
       /\ UNCHANGED exitCode
  /\ UNCHANGED <<args0, nargs, on, appsGetter, app, apps, spaceMap, idx, t>>

\* lines 223-229: the flag-set request; on success Ok and the announcement of
\* the verification.  The acknowledgment does not say whether the new value
\* is visible to later reads (applied).
toggleSetDiegoFlag ==
  /\ pc = "SetDiegoFlag"
  /\ \E err \in ErrValues \cup {nil}, output \in OutputLines,
        applied \in BOOLEAN :
       /\ calls' = Append(calls,
                     CallOut("SetDiegoFlag", app.Guid, FormatBool(on), err,
                             output))
       /\ remoteDiego' = IF applied /\ app.Guid # "" THEN on ELSE remoteDiego
       /\ IF err # nil
            THEN /\ stdout' = stdout \o <<Line("err 1", err)>>
                                     \o exitWithError(err, output)
                 /\ pc' = "exit"
                 /\ exitCode' = 1
            ELSE /\ stdout' = stdout \o <<sayOk,
                                          Line("Verifying", FormatBool(on))>>
                 /\ pc' = "Verifying"
                 /\ UNCHANGED exitCode
  /\ UNCHANGED <<args0, nargs, on, appsGetter, app, apps, spaceMap, idx, t>>

\* lines 230-233: the verification read
toggleVerifyGetApp ==
  /\ pc = "Verifying"
  /\ \E found \in BOOLEAN, err \in ErrValues \cup {nil} :
       LET a == GetApp(found) IN
       /\ calls' = Append(calls, GetAppCall(a, err))
       /\ app' = a
       /\ IF err # nil
            THEN /\ stdout' = stdout \o exitWithError(err, <<>>)
                 /\ pc' = "exit"
                 /\ exitCode' = 1
            ELSE /\ pc' = "Compare"
                 /\ UNCHANGED <<stdout, exitCode>>
  /\ UNCHANGED <<args0, nargs, on, appsGetter, apps, spaceMap, idx, t,
                 remoteDiego>>

\* toggleCompare with the verdict taken from the read made before the write
toggleCompare_PreWriteRead ==
  /\ pc = "Compare"
  /\ calls' = Append(calls, Call("compare", calls[1].ret, FormatBool(on), nil))
  /\ IF calls[1].ret = FormatBool(on)
       THEN /\ stdout' = Append(stdout, sayOk)
            /\ pc' = "done"
            /\ UNCHANGED exitCode
       ELSE /\ stdout' = stdout \o <<sayFailed,
                                     Line("NOT set", FormatBool(on))>>
            /\ pc' = "exit"
            /\ exitCode' = 1
  /\ UNCHANGED <<args0, nargs, on, appsGetter, app, apps, spaceMap, idx, t,
                 remoteDiego>>

\* toggleCompare with a divergence that sets the flag again
toggleCompare_Retry ==
  /\ pc = "Compare"
  /\ calls' = Append(calls, Call("compare", FormatBool(app.Diego),
                                 FormatBool(on), nil))
  /\ IF app.Diego = on
       THEN /\ stdout' = Append(stdout, sayOk)
            /\ pc' = "done"
       ELSE /\ stdout' = stdout \o <<sayFailed,
                                     Line("NOT set", FormatBool(on))>>
            /\ pc' = IF Len(calls) < 6 THEN "SetDiegoFlag" ELSE "exit"
  /\ exitCode' = IF pc' = "exit" THEN 1 ELSE exitCode
  /\ UNCHANGED <<args0, nargs, on, appsGetter, app, apps, spaceMap, idx, t,
                 remoteDiego>>

\* toggleCompare that reports Ok whatever was read
toggleCompare_AssumeWritten ==
  /\ pc = "Compare"
  /\ calls' = Append(calls, Call("compare", FormatBool(app.Diego),
                                 FormatBool(on), nil))
  /\ stdout' = Append(stdout, sayOk)
  /\ pc' = "done"
  /\ UNCHANGED <<args0, nargs, on, appsGetter, app, apps, spaceMap, idx, t,
                 exitCode, remoteDiego>>

\* lines 235-241: the comparison of the re-read flag with the requested value
toggleCompare ==
  /\ pc = "Compare"
  /\ calls' = Append(calls, Call("compare", FormatBool(app.Diego),
                                 FormatBool(on), nil))
  /\ IF app.Diego = on
       THEN /\ stdout' = Append(stdout, sayOk)
            /\ pc' = "done"
            /\ UNCHANGED exitCode
       ELSE /\ stdout' = stdout \o <<sayFailed,
                                     Line("NOT set", FormatBool(on))>>
            /\ pc' = "exit"
            /\ exitCode' = 1
  /\ UNCHANGED <<args0, nargs, on, appsGetter, app, apps, spaceMap, idx, t,
                 remoteDiego>>

\* ------------------------------------------------------------ isDiegoEnabled
\* lines 245-248: the lookup
isDiegoEnabledGetApp ==
  /\ pc = "isDiegoEnabled"
  /\ \E found \in BOOLEAN, err \in ErrValues \cup {nil} :
       LET a == GetApp(found) IN
       /\ calls' = Append(calls, GetAppCall(a, err))
       /\ app' = a
       /\ IF err # nil
            THEN /\ stdout' = stdout \o exitWithError(err, <<>>)
                 /\ pc' = "exit"
                 /\ exitCode' = 1
            ELSE /\ pc' = "isDiegoEnabledReport"
                 /\ UNCHANGED <<stdout, exitCode>>
  /\ UNCHANGED <<args0, nargs, on, appsGetter, apps, spaceMap, idx, t,
                 remoteDiego>>

\* isDiegoEnabledReport that writes the flag it has read back
isDiegoEnabledReport_WriteBack ==
  /\ pc = "isDiegoEnabledReport"
  /\ calls' = Append(calls, Call("SetDiegoFlag", app.Guid,
                                 FormatBool(app.Diego), nil))
  /\ remoteDiego' = app.Diego
  /\ IF app.Guid = ""
       THEN /\ stdout' = stdout \o <<sayFailed, Line("not found", "APP_NAME")>>
            /\ pc' = "exit"
            /\ exitCode' = 1
       ELSE /\ stdout' = Append(stdout, Line("flag", FormatBool(app.Diego)))
            /\ pc' = "done"
            /\ UNCHANGED exitCode
  /\ UNCHANGED <<args0, nargs, on, appsGetter, app, apps, spaceMap, idx, t>>

\* isDiegoEnabledReport without the test of the identity
isDiegoEnabledReport_NoGuidCheck ==
  /\ pc = "isDiegoEnabledReport"
  /\ stdout' = Append(stdout, Line("flag", FormatBool(app.Diego)))
  /\ pc' = "done"
  /\ UNCHANGED <<args0, nargs, on, appsGetter, app, apps, spaceMap, idx, t,
                 calls, exitCode, remoteDiego>>

\* lines 250-256: not found, or the flag
isDiegoEnabledReport ==
  /\ pc = "isDiegoEnabledReport"
  /\ IF app.Guid = ""
       THEN /\ stdout' = stdout \o <<sayFailed, Line("not found", "APP_NAME")>>
            /\ pc' = "exit"
            /\ exitCode' = 1
       ELSE /\ stdout' = Append(stdout, Line("flag", FormatBool(app.Diego)))
            /\ pc' = "done"
            /\ UNCHANGED exitCode
  /\ UNCHANGED <<args0, nargs, on, appsGetter, app, apps, spaceMap, idx, t,
                 calls, remoteDiego>>

\* ------------------------------------------------------------------ showApps
\* verifyLoggedIn that returns the error of IsLoggedIn whenever there is one
verifyLoggedIn_ErrFirst(connected, err) ==
  IF err # nil THEN err
  ELSE IF ~connected THEN NotLoggedInError
  ELSE nil

\* verifyLoggedIn that only looks at the error IsLoggedIn returned
verifyLoggedIn_ErrOnly(connected, err) == err

\* lines 280-292
verifyLoggedIn(connected, err) ==
  IF ~connected
    THEN IF err # nil THEN err ELSE NotLoggedInError
    ELSE nil

\* lines 145-148: later spaces with the same Guid overwrite earlier ones
buildSpaceMap(spaces) ==
  [g \in {spaces[i].Guid : i \in DOMAIN spaces} |->
     spaces[CHOOSE i \in DOMAIN spaces :
              /\ spaces[i].Guid = g
              /\ \A j \in DOMAIN spaces : spaces[j].Guid = g => j <= i]]

\* spaceDisplayFor that reads the map without looking at ok: a miss yields
\* the zero Space, whose Name is empty
spaceDisplayFor_IgnoreOk(a, spaces) ==
  IF DOMAIN spaces = {} THEN a.SpaceGuid
  ELSE IF a.SpaceGuid \in DOMAIN spaces THEN spaces[a.SpaceGuid].Name
  ELSE ""

\* lines 172-187
spaceDisplayFor(a, spaces) ==
  IF DOMAIN spaces = {} THEN a.SpaceGuid
  ELSE IF a.SpaceGuid \in DOMAIN spaces THEN spaces[a.SpaceGuid].Name
  ELSE a.SpaceGuid

\* orgDisplayFor without the fallback to the organization identity
orgDisplayFor_NoFallback(a, spaces) ==
  IF DOMAIN spaces = {} THEN ""
  ELSE IF a.SpaceGuid \notin DOMAIN spaces THEN ""
  ELSE spaces[a.SpaceGuid].Organization.Name

\* lines 189-204
orgDisplayFor(a, spaces) ==
  IF DOMAIN spaces = {} THEN ""
  ELSE IF a.SpaceGuid \notin DOMAIN spaces THEN ""
  ELSE IF spaces[a.SpaceGuid].Organization.Name # ""
    THEN spaces[a.SpaceGuid].Organization.Name
  ELSE spaces[a.SpaceGuid].OrganizationGuid

Row(name, space, org) == [name |-> name, space |-> space, org |-> org]

\* the tail every step of showApps shares: an error ends the process through
\* exitWithError(err, []string{}), otherwise the command moves on
showAppsStep(err, printed, next) ==
  IF err # nil
    THEN /\ stdout' = stdout \o exitWithError(err, <<>>)
         /\ pc' = "exit"
         /\ exitCode' = 1
    ELSE /\ stdout' = stdout \o printed
         /\ pc' = next
         /\ UNCHANGED exitCode

\* lines 91-94
showAppsUsername ==
  /\ pc = "showApps"
  /\ \E err \in ErrValues \cup {nil} :
       /\ calls' = Append(calls, Call("Username", "", "admin", err))
       /\ showAppsStep(err, <<>>, "verifyLoggedIn")
  /\ UNCHANGED <<args0, nargs, on, appsGetter, app, apps, spaceMap, idx, t,
                 remoteDiego>>

\* lines 96-98
showAppsVerifyLoggedIn ==
  /\ pc = "verifyLoggedIn"
  /\ \E connected \in BOOLEAN, err \in ErrValues \cup {nil} :
       /\ calls' = Append(calls,
                     Call("IsLoggedIn", "", FormatBool(connected), err))
       /\ showAppsStep(verifyLoggedIn(connected, err), <<>>, "AccessToken")
  /\ UNCHANGED <<args0, nargs, on, appsGetter, app, apps, spaceMap, idx, t,
                 remoteDiego>>

\* lines 100-105
showAppsAccessToken ==
  /\ pc = "AccessToken"
  /\ \E err \in ErrValues \cup {nil} :
       /\ calls' = Append(calls, Call("AccessToken", "", "bearer token", err))
       /\ showAppsStep(err, <<Line("Getting apps", "admin")>>, "ApiEndpoint")
  /\ UNCHANGED <<args0, nargs, on, appsGetter, app, apps, spaceMap, idx, t,
                 remoteDiego>>

\* lines 111-114
showAppsApiEndpoint ==
  /\ pc = "ApiEndpoint"
  /\ \E err \in ErrValues \cup {nil} :
       /\ calls' = Append(calls, Call("ApiEndpoint", "", "api.example", err))
       /\ showAppsStep(err, <<>>, "NewApiClient")
  /\ UNCHANGED <<args0, nargs, on, appsGetter, app, apps, spaceMap, idx, t,
                 remoteDiego>>

\* showAppsNewApiClient that goes on to the space listing
showAppsNewApiClient_SpacesFirst ==
  /\ pc = "NewApiClient"
  /\ \E err \in ErrValues \cup {nil} :
       /\ calls' = calls \o
            (IF err # nil
               THEN <<Call("NewApiClient", "api.example", "", err)>>
               ELSE <<Call("NewApiClient", "api.example", "", nil),
                      Call("RequestFactory", "NewGetSpacesRequest", "", nil)>>)
       /\ showAppsStep(err, <<>>, "Spaces")
  /\ UNCHANGED <<args0, nargs, on, appsGetter, app, apps, spaceMap, idx, t,
                 remoteDiego>>

\* lines 116-129: the client, then the application request factory
showAppsNewApiClient ==
  /\ pc = "NewApiClient"
  /\ \E err \in ErrValues \cup {nil} :
       /\ calls' = calls \o
            (IF err # nil
               THEN <<Call("NewApiClient", "api.example", "", err)>>
               ELSE <<Call("NewApiClient", "api.example", "", nil),
                      Call("RequestFactory", "NewGetAppsRequest", "", nil)>>)
       /\ showAppsStep(err, <<>>, "appsGetter")
  /\ UNCHANGED <<args0, nargs, on, appsGetter, app, apps, spaceMap, idx, t,
                 remoteDiego>>

\* lines 131-138: the application listing, then the space request factory.
\* A listing that fails returns an error; whatever pages it had fetched are
\* not kept (apps is only read on the success path).
showAppsGetApps ==
  /\ pc = "appsGetter"
  /\ \E err \in ErrValues \cup {nil}, fetched \in SeqsUpTo(ListedApps, MaxApps) :
       /\ calls' = calls \o
            (IF err # nil
               THEN <<Call(appsGetter, "", "", err)>>
               ELSE <<Call(appsGetter, "", "", nil),
                      Call("RequestFactory", "NewGetSpacesRequest", "", nil)>>)
       /\ apps' = IF err # nil THEN <<>> ELSE fetched
       /\ err # nil => fetched = <<>>
       /\ showAppsStep(err, <<>>, "Spaces")
  /\ UNCHANGED <<args0, nargs, on, appsGetter, app, spaceMap, idx, t,
                 remoteDiego>>

\* showAppsGetSpaces that degrades to an empty space map when the space
\* listing fails
showAppsGetSpaces_Degrade ==
  /\ pc = "Spaces"
  /\ \E err \in ErrValues \cup {nil}, spaces \in SeqsUpTo(Spaces, MaxSpaces) :
       /\ calls' = Append(calls, Call("Spaces", "", "", err))
       /\ err # nil => spaces = <<>>
       /\ spaceMap' = buildSpaceMap(spaces)
       /\ idx' = 1
       /\ showAppsStep(nil, <<sayOk>>, "range apps")
  /\ UNCHANGED <<args0, nargs, on, appsGetter, app, apps, t, remoteDiego>>

\* lines 140-161: the space listing, the space map, Ok, the empty table
showAppsGetSpaces ==
  /\ pc = "Spaces"
  /\ \E err \in ErrValues \cup {nil}, spaces \in SeqsUpTo(Spaces, MaxSpaces) :
       /\ calls' = Append(calls, Call("Spaces", "", "", err))
       /\ err # nil => spaces = <<>>
       /\ spaceMap' = IF err # nil THEN spaceMap ELSE buildSpaceMap(spaces)
       /\ idx' = IF err # nil THEN idx ELSE 1
       /\ showAppsStep(err, <<sayOk>>, "range apps")
  /\ UNCHANGED <<args0, nargs, on, appsGetter, app, apps, t, remoteDiego>>

\* showAppsAddRow that takes the space it has displayed out of the map
showAppsAddRow_ConsumeSpace ==
  /\ pc = "range apps"
  /\ idx <= Len(apps)
  /\ t' = Append(t, Row(apps[idx].Name, spaceDisplayFor(apps[idx], spaceMap),
                        orgDisplayFor(apps[idx], spaceMap)))
  /\ idx' = idx + 1
  /\ spaceMap' = [g \in DOMAIN spaceMap \ {apps[idx].SpaceGuid} |-> spaceMap[g]]
  /\ UNCHANGED <<args0, nargs, pc, on, appsGetter, app, apps, stdout,
                 calls, exitCode, remoteDiego>>

\* lines 163-165: one iteration of the loop over apps
showAppsAddRow ==
  /\ pc = "range apps"
  /\ idx <= Len(apps)
  /\ t' = Append(t, Row(apps[idx].Name, spaceDisplayFor(apps[idx], spaceMap),
                        orgDisplayFor(apps[idx], spaceMap)))
  /\ idx' = idx + 1
  /\ UNCHANGED <<args0, nargs, pc, on, appsGetter, app, apps, spaceMap, stdout,
                 calls, exitCode, remoteDiego>>

\* line 167: the loop is over, the table is printed
showAppsPrint ==
  /\ pc = "range apps"
  /\ idx > Len(apps)
  /\ stdout' = stdout \o <<Line("headers", "name space org")>>
                      \o [i \in 1..Len(t) |-> Line("row", t[i].name)]
  /\ pc' = "done"
  /\ UNCHANGED <<args0, nargs, on, appsGetter, app, apps, spaceMap, idx, t,
                 calls, exitCode, remoteDiego>>

Init ==
  /\ args0 \in Arg0Values
  /\ nargs \in 1..MaxArgs
  /\ pc = "Run"
  /\ on = FALSE
  /\ appsGetter = "none"
  /\ app = NoApp
  /\ apps = <<>>
  /\ spaceMap = buildSpaceMap(<<>>)
  /\ idx = 0
  /\ t = <<>>
  /\ stdout = <<>>
  /\ calls = <<>>
  /\ exitCode = 0
  /\ remoteDiego \in BOOLEAN

Next ==
  \/ Run
  \/ toggleGetApp
  \/ toggleSetDiegoFlag
  \/ toggleVerifyGetApp
  \/ toggleCompare
  \/ isDiegoEnabledGetApp
  \/ isDiegoEnabledReport
  \/ showAppsUsername
  \/ showAppsVerifyLoggedIn
  \/ showAppsAccessToken
  \/ showAppsApiEndpoint
  \/ showAppsNewApiClient
  \/ showAppsGetApps
  \/ showAppsGetSpaces
  \/ showAppsAddRow
  \/ showAppsPrint

Spec == Init /\ [][Next]_vars
\* ================================================================ properties
Terminated == pc \in {"done", "exit"}

\* positions in calls of the calls of one operation
CallsOf(op) == {i \in DOMAIN calls : calls[i].op = op}
\* the flag-set requests that succeeded
SetSucceeded == {i \in CallsOf("SetDiegoFlag") : calls[i].err = nil}
\* the reads of the application made after a flag-set request
VerificationReads ==
  {j \in CallsOf("GetApp") : \E i \in CallsOf("SetDiegoFlag") : i < j}

LastLine == stdout[Len(stdout)]
Printed(kind) == \E i \in DOMAIN stdout : stdout[i].kind = kind

IsToggleRun == args0 \in {"enable-diego", "disable-diego"} /\ nargs = 2
Requested == (args0 = "enable-diego")

\* C1: in toggleDiegoSupport, once the set request has succeeded and the
\* verification read has returned without error, the step taken from there
\* ends the command: in Converged (Ok printed, no exit status 1) when the
\* re-read flag equals the requested boolean, in Diverged (FAILED printed,
\* exit status 1) when it is the opposite.  Nothing else follows Verifying.
C1_ConvergedOrDiverged ==
  [][(/\ pc = "Compare"
      /\ SetSucceeded # {}
      /\ calls[Len(calls)].op = "GetApp"
      /\ calls[Len(calls)].err = nil)
     => IF calls[Len(calls)].ret = FormatBool(Requested)
          THEN /\ pc' = "done"
               /\ exitCode' = 0
               /\ stdout' = Append(stdout, sayOk)
          ELSE /\ pc' = "exit"
               /\ exitCode' = 1
               /\ Len(stdout') = Len(stdout) + 2
               /\ stdout'[Len(stdout) + 1] = sayFailed
               /\ stdout'[Len(stdout) + 2].kind = "NOT set"]_vars

\* a run that diverged: the set request succeeded, the re-read returned the
\* opposite flag, the command failed
C1_Witness ==
  /\ IsToggleRun
  /\ pc = "exit"
  /\ SetSucceeded # {}
  /\ Len(calls) = 4
  /\ calls[3].op = "GetApp" /\ calls[3].err = nil
  /\ calls[3].ret # FormatBool(Requested)
  /\ calls[4].op = "compare"

\* C2: in toggleDiegoSupport, when SetDiegoFlag returns an error the command
\* prints FAILED, the error and the returned output lines, and exits with
\* status 1; nothing is called after the failed set request: no verification
\* read, no second set request.
C2_SetErrorIsTerminal ==
  \A i \in CallsOf("SetDiegoFlag") :
    calls[i].err # nil =>
      /\ i = Len(calls)
      /\ Cardinality(CallsOf("SetDiegoFlag")) = 1
      /\ VerificationReads = {}
      /\ pc = "exit"
      /\ exitCode = 1
      /\ LET n == Len(calls[i].output)
             k == Len(stdout) - n
         IN /\ k >= 2
            /\ stdout[k - 1] = sayFailed
            /\ stdout[k] = Line("Error", calls[i].err)
            /\ \A m \in 1..n : stdout[k + m] = Line("output", calls[i].output[m])

\* a failed set request that returned an output line
C2_Witness ==
  /\ pc = "exit"
  /\ \E i \in CallsOf("SetDiegoFlag") :
       calls[i].err # nil /\ calls[i].output # <<>>

\* C3: every toggleDiegoSupport run that reports final success made a read
\* of the application after the set request completed, and the flag that
\* this later read returned is the requested value (the verdict comes from
\* that read, not from the read before the write nor from the set request's
\* acknowledgment).
C3_SuccessReflectsReRead ==
  (IsToggleRun /\ pc = "done") =>
     /\ SetSucceeded # {}
     /\ VerificationReads # {}
     /\ \A j \in VerificationReads :
          calls[j].err = nil /\ calls[j].ret = FormatBool(Requested)
     /\ LastLine = sayOk
     /\ exitCode = 0

\* a successful run in which the read before the write returned the opposite
\* of what was requested
C3_Witness ==
  /\ IsToggleRun
  /\ pc = "done"
  /\ calls[1].op = "GetApp"
  /\ calls[1].ret # FormatBool(Requested)
  /\ calls[3].op = "GetApp"
  /\ calls[3].ret = FormatBool(Requested)

IsHasDiegoRun == args0 = "has-diego-enabled" /\ nargs = 2

\* C5: in isDiegoEnabled, when the lookup returns no error and an empty
\* identity the command prints FAILED and "not found", exits with status 1
\* and prints no flag value; when the identity is not empty it prints the
\* flag value that the lookup returned, and nothing else.
C5_NotFoundOrFlag ==
  (IsHasDiegoRun /\ Terminated /\ calls[1].err = nil) =>
     IF app.Guid = ""
       THEN /\ stdout = <<sayFailed, Line("not found", "APP_NAME")>>
            /\ pc = "exit"
            /\ exitCode = 1
            /\ ~Printed("flag")
       ELSE /\ stdout = <<Line("flag", calls[1].ret)>>
            /\ pc = "done"
            /\ exitCode = 0

\* the lookup succeeded with an empty identity and the command has ended
C5_Witness ==
  /\ IsHasDiegoRun
  /\ Terminated
  /\ Len(calls) = 1 /\ calls[1].op = "GetApp" /\ calls[1].err = nil
  /\ app.Guid = ""

IsShowAppsRun == args0 \in {"diego-apps", "dea-apps"} /\ nargs = 1
\* both listings have returned without error
Listed ==
  /\ CallsOf("Spaces") # {}
  /\ \A i \in CallsOf("Spaces") : calls[i].err = nil

\* C6: for every application whose space identity is not a key of the space
\* map (the empty map included) the row added for it has the raw space
\* identity as its space field and the empty string as its organization
\* field; producing rows never fails: after the listings the command only
\* adds rows and prints them, one row for every application.
C6_UnresolvedSpaceDegrades ==
  /\ \A i \in DOMAIN t :
       apps[i].SpaceGuid \notin DOMAIN spaceMap =>
          t[i].space = apps[i].SpaceGuid /\ t[i].org = ""
  /\ (IsShowAppsRun /\ Listed) =>
        /\ pc \in {"range apps", "done"}
        /\ exitCode = 0
        /\ Len(t) = (IF pc = "done" THEN Len(apps) ELSE idx - 1)

\* all rows are printed; the space map is not empty and misses the space of
\* one of the applications
C6_Witness ==
  /\ IsShowAppsRun
  /\ pc = "done"
  /\ DOMAIN spaceMap # {}
  /\ \E i \in DOMAIN t : apps[i].SpaceGuid \notin DOMAIN spaceMap

\* C7: for every application whose space identity is a key of the space map
\* the row's space field is that space's display name and its organization
\* field is the space's organization display name when that is not empty
\* and the raw organization identity otherwise; the listing prints exactly
\* one row for every fetched application, in the order of the listing.
C7_ResolvedRowInOrder ==
  /\ \A i \in DOMAIN t :
       apps[i].SpaceGuid \in DOMAIN spaceMap =>
         LET space == spaceMap[apps[i].SpaceGuid] IN
         /\ t[i].space = space.Name
         /\ t[i].org = IF space.Organization.Name # ""
                         THEN space.Organization.Name
                         ELSE space.OrganizationGuid
  /\ \A i \in DOMAIN t : t[i].name = apps[i].Name
  /\ (IsShowAppsRun /\ pc = "done") =>
        /\ Len(t) = Len(apps)
        /\ SelectSeq(stdout, LAMBDA l : l.kind = "row")
             = [i \in 1..Len(apps) |-> Line("row", apps[i].Name)]

\* two different applications were listed and printed, the second in a space
\* whose organization has no display name
C7_Witness ==
  /\ IsShowAppsRun
  /\ pc = "done"
  /\ Len(apps) = 2
  /\ apps[1].Name # apps[2].Name
  /\ apps[2].SpaceGuid \in DOMAIN spaceMap
  /\ spaceMap[apps[2].SpaceGuid].Organization.Name = ""
  /\ t[2].org = "o1"

\* C8: in showApps, when the application listing or the space listing
\* returns an error the command exits with status 1 and no table row is
\* added or printed, also when the applications had already been fetched.
C8_ListingAllOrNothing ==
  (\E i \in CallsOf("DiegoApps") \cup CallsOf("DeaApps") \cup CallsOf("Spaces") :
      calls[i].err # nil)
  => /\ pc = "exit"
     /\ exitCode = 1
     /\ t = <<>>
     /\ ~Printed("row")
     /\ ~Printed("headers")

\* the space listing failed after a non-empty application set was fetched
C8_Witness ==
  /\ apps # <<>>
  /\ \E i \in CallsOf("Spaces") : calls[i].err # nil
  /\ pc = "exit"

\* C9: in showApps, when IsLoggedIn reports false the command exits with
\* status 1 and IsLoggedIn is its last call: the access token is not read,
\* no request factory is built and no listing is requested.  The error
\* printed is the one IsLoggedIn returned if any, 'You must be logged in'
\* otherwise.
C9_NotLoggedInFailsFast ==
  \A i \in CallsOf("IsLoggedIn") :
    calls[i].ret = FormatBool(FALSE) =>
      /\ i = Len(calls)
      /\ CallsOf("AccessToken") = {}
      /\ CallsOf("RequestFactory") = {}
      /\ CallsOf("DiegoApps") \cup CallsOf("DeaApps") \cup CallsOf("Spaces") = {}
      /\ pc = "exit"
      /\ exitCode = 1
      /\ stdout = <<sayFailed,
                    Line("Error", IF calls[i].err # nil THEN calls[i].err
                                  ELSE "You must be logged in")>>

\* IsLoggedIn reported false without an error and the command has exited
C9_Witness ==
  /\ pc = "exit"
  /\ \E i \in CallsOf("IsLoggedIn") :
       calls[i].ret = FormatBool(FALSE) /\ calls[i].err = nil

\* the argument count each command name takes
Arity(name) ==
  IF name \in {"enable-diego", "disable-diego", "has-diego-enabled"} THEN 2
  ELSE 1
InvalidInvocation ==
  args0 \notin CommandNames \/ nargs # Arity(args0)

\* C10 as stated: every invocation whose first argument is not a command
\* name, or whose argument count is not the command's arity, prints usage
\* text and makes no collaborator call.
C10_AsStated ==
  (InvalidInvocation /\ pc # "Run") =>
     /\ Printed("Invalid Usage")
     /\ calls = <<>>

\* C10 as amended: such an invocation makes no collaborator call and ends
\* with status 0; the usage text of the command is printed when the first
\* argument is one of the five command names, and nothing is printed when
\* it is not.
C10_InvalidInvocation ==
  (InvalidInvocation /\ pc # "Run") =>
     /\ calls = <<>>
     /\ pc = "done"
     /\ exitCode = 0
     /\ stdout = IF args0 \in CommandNames
                   THEN <<Line("Invalid Usage", args0)>>
                   ELSE <<>>

\* a command name with the wrong number of arguments went through Run
C10_Witness ==
  /\ args0 = "dea-apps"
  /\ nargs = 2
  /\ pc = "done"
  /\ Printed("Invalid Usage")

\* C11: in every command, every collaborator call that returns an error is
\* the last call of the run: the command prints FAILED and that error and
\* exits with status 1.  No returned error is ignored.
C11_EveryErrorSurfaces ==
  \A i \in DOMAIN calls :
    calls[i].err # nil =>
      /\ i = Len(calls)
      /\ pc = "exit"
      /\ exitCode = 1
      /\ \E k \in DOMAIN stdout :
           /\ stdout[k] = sayFailed
           /\ k < Len(stdout)
           /\ stdout[k + 1] = Line("Error", calls[i].err)

\* the lookups of the application that returned no error and an empty
\* identity: the first lookup of toggleDiegoSupport is the one whose Guid is
\* passed to SetDiegoFlag, and app holds the result of the latest lookup
LookupNotFound ==
  \/ \E i \in CallsOf("SetDiegoFlag") : calls[i].arg = ""
  \/ /\ CallsOf("GetApp") # {}
     /\ \A j \in CallsOf("GetApp") :
          (\A k \in CallsOf("GetApp") : k <= j) => calls[j].err = nil
     /\ app.Guid = ""
\* the failure paths of a run: not authenticated, a collaborator returned an
\* error, the application was not found, the re-read flag differs
FailurePath ==
  \/ \E i \in CallsOf("IsLoggedIn") : calls[i].ret = FormatBool(FALSE)
  \/ \E i \in DOMAIN calls : calls[i].err # nil
  \/ LookupNotFound
  \/ \E i \in CallsOf("compare") : calls[i].arg # calls[i].ret

\* C12: when a command has ended, its exit status is non-zero if and only
\* if the run took a failure path (authentication failure, collaborator
\* error, application not found, divergence after the write).
C12_ExitStatusIffFailure ==
  Terminated => ((exitCode # 0) <=> FailurePath)

\* C13: Join & Presentation is a function of its inputs only: rows computed
\* at different iterations for the same application and the same space map
\* have identical space and organization fields, and computing a row leaves
\* the application set and the space map as they were.
C13_JoinIsPure ==
  /\ [](\A i, j \in DOMAIN t :
          apps[i].SpaceGuid = apps[j].SpaceGuid =>
             t[i].space = t[j].space /\ t[i].org = t[j].org)
  /\ [][pc = "range apps" => (apps' = apps /\ spaceMap' = spaceMap)]_vars

\* two rows were computed for applications of the same space, which the
\* space map resolves
C13_Witness ==
  /\ pc = "done"
  /\ Len(t) = 2
  /\ apps[1].SpaceGuid = apps[2].SpaceGuid
  /\ apps[1].SpaceGuid \in DOMAIN spaceMap
  /\ t[1].space = t[2].space

\* the calls of a complete showApps run, in the order of the code
ShowAppsOrder ==
  <<"Username", "IsLoggedIn", "AccessToken", "ApiEndpoint", "NewApiClient",
    "RequestFactory", IF args0 = "diego-apps" THEN "DiegoApps" ELSE "DeaApps",
    "RequestFactory", "Spaces">>
AppsListed ==
  \E j \in CallsOf("DiegoApps") \cup CallsOf("DeaApps") : calls[j].err = nil

\* C14: in showApps the calls are made in the order Username, IsLoggedIn,
\* AccessToken, ApiEndpoint, NewApiClient, application listing, space
\* listing; the space listing is only started after the application listing
\* has returned without error; the space map is only built, and rows are
\* only added or printed, after both listings have returned without error.
C14_ShowAppsSequence ==
  IsShowAppsRun =>
    /\ Len(calls) <= Len(ShowAppsOrder)
    /\ \A i \in DOMAIN calls : calls[i].op = ShowAppsOrder[i]
    /\ \A i \in CallsOf("Spaces") :
         \E j \in CallsOf("DiegoApps") \cup CallsOf("DeaApps") :
            j < i /\ calls[j].err = nil
    /\ (pc = "Spaces" \/ apps # <<>>) => AppsListed
    /\ (\/ DOMAIN spaceMap # {}
        \/ t # <<>>
        \/ Printed("row")
        \/ Printed("headers")
        \/ pc \in {"range apps", "done"}) => (AppsListed /\ Listed)

\* a listing that printed a row after all seven calls
C14_Witness ==
  /\ IsShowAppsRun
  /\ pc = "done"
  /\ Len(calls) = Len(ShowAppsOrder)
  /\ Printed("row")

\* C15: has-diego-enabled is read-only: a run of isDiegoEnabled looks the
\* application up exactly once, makes no other call, never issues a set
\* request, and no step of it changes the remote flag, on every path.
C15_HasDiegoReadOnly ==
  /\ [](IsHasDiegoRun =>
          /\ CallsOf("SetDiegoFlag") = {}
          /\ \A i \in DOMAIN calls : calls[i].op = "GetApp"
          /\ Len(calls) <= 1
          /\ Terminated => Len(calls) = 1)
  /\ [][IsHasDiegoRun => remoteDiego' = remoteDiego]_vars

\* the flag of a found application has been printed
C15_Witness ==
  /\ IsHasDiegoRun
  /\ pc = "done"
  /\ Printed("flag")
  /\ app.Guid # ""

\* C16: a valid invocation runs exactly one handler with the right
\* parameter: enable-diego requests true and disable-diego false, in the
\* announcement, in the set request and in the comparison; diego-apps lists
\* with the Diego getter and dea-apps with the DEA getter; no handler's
\* calls appear in another command's run and no usage text is printed.
C16_DispatchRightHandler ==
  /\ IsToggleRun =>
       /\ \A i \in DOMAIN calls : calls[i].op \in {"GetApp", "SetDiegoFlag", "compare"}
       /\ \A i \in CallsOf("SetDiegoFlag") \cup CallsOf("compare") :
            calls[i].ret = FormatBool(Requested)
       /\ \A k \in DOMAIN stdout :
            stdout[k].kind \in {"Setting", "Verifying", "NOT set"} =>
               stdout[k].text = FormatBool(Requested)
       /\ pc # "Run" => (pc \notin {"isDiegoEnabled", "showApps"} /\ on = Requested)
  /\ IsHasDiegoRun =>
       /\ \A i \in DOMAIN calls : calls[i].op = "GetApp"
       /\ pc \notin {"toggleDiegoSupport", "showApps"}
  /\ IsShowAppsRun =>
       /\ \A i \in DOMAIN calls :
            calls[i].op \notin {"GetApp", "SetDiegoFlag", "compare",
                                IF args0 = "diego-apps" THEN "DeaApps"
                                                        ELSE "DiegoApps"}
       /\ pc \notin {"toggleDiegoSupport", "isDiegoEnabled"}
  /\ (IsToggleRun \/ IsHasDiegoRun \/ IsShowAppsRun) =>
       /\ ~Printed("Invalid Usage")
       /\ Terminated => calls # <<>>

\* disable-diego converged on false, and dea-apps is not what ran
C16_Witness ==
  /\ args0 = "disable-diego"
  /\ pc = "done"
  /\ \E i \in CallsOf("SetDiegoFlag") : calls[i].ret = "false"
  /\ \E i \in CallsOf("compare") : calls[i].ret = "false"

\* C17: in enable-diego / disable-diego, a first lookup that returns no
\* error and an empty identity ends the command with a non-zero status
\* before the set request: a set request is only issued for a non-empty
\* application identity.
C17_EmptyIdentityNotSet ==
  /\ \A i \in CallsOf("SetDiegoFlag") : calls[i].arg # ""
  /\ pc = "SetDiegoFlag" => app.Guid # ""

\* C18: in showApps the login check fails (the command exits on it) exactly
\* when IsLoggedIn reported connected == false; when it reported true the
\* command goes on to read the access token, also when IsLoggedIn returned
\* an error along with true.
C18_LoginErrorIffNotConnected ==
  \A i \in CallsOf("IsLoggedIn") :
    /\ (i = Len(calls) /\ pc = "exit") <=> (calls[i].ret = FormatBool(FALSE))
    /\ calls[i].ret = FormatBool(TRUE) =>
         IF i = Len(calls) THEN pc = "AccessToken" /\ exitCode = 0
         ELSE calls[i + 1].op = "AccessToken"

\* IsLoggedIn returned true with an error and both listings were requested
C18_Witness ==
  /\ \E i \in CallsOf("IsLoggedIn") :
       calls[i].ret = FormatBool(TRUE) /\ calls[i].err # nil
  /\ CallsOf("AccessToken") # {}
  /\ CallsOf("Spaces") # {}
  /\ pc = "done"
====
